---- MODULE Spec2Model ----
(***************************************************************************)
(* Evolve.AI plan generation function (netlify/functions/generate-plan.js, *)
(* the variant with JSON mode, one stricter retry, a safe fallback and a   *)
(* test switch: lines 225-385 of the file).                                *)
(*                                                                         *)
(* Texts (request bodies, model replies) are sequences of lexical tokens:  *)
(* the structural characters "{" "}" "[" "]" "," stand for themselves, a   *)
(* key token such as "week:" is a quoted key with its colon, an atom token *)
(* is one literal, a group token is a run of brace-free members, "_" is    *)
(* white space, "x" is a word of prose and "fence" a code-fence marker.    *)
(* JSON values are tagged records, objects carrying their members as a     *)
(* function from key to value.                                             *)
(***************************************************************************)
EXTENDS Integers, Sequences, FiniteSets, TLC

(* ------------------------------ JSON values --------------------------- *)

JUndef == [t |-> "undefined"]
JNull == [t |-> "null"]
JNaN == [t |-> "nan"]
JTrue == [t |-> "bool", b |-> TRUE]
JFalse == [t |-> "bool", b |-> FALSE]
JNum(n) == [t |-> "num", n |-> n]
JStr(s) == [t |-> "str", s |-> s]
JArr(items) == [t |-> "arr", items |-> items, props |-> <<>>]
JObj(f) == [t |-> "obj", f |-> f]
EmptyObj == JObj(<<>>)

\* o.k / o?.k : undefined for null and undefined (optional chaining) and for a
\* missing member; primitives have no own members
Get(v, k) ==
  IF v.t = "obj" /\ k \in DOMAIN v.f THEN v.f[k]
  ELSE IF v.t = "arr" /\ k \in DOMAIN v.props THEN v.props[k]
  ELSE JUndef

\* JavaScript truthiness, as used by || and !
Truthy(v) ==
  CASE v.t \in {"undefined", "null", "nan"} -> FALSE
    [] v.t = "num" -> v.n # 0
    [] v.t = "str" -> v.s # <<>>
    [] v.t = "bool" -> v.b
    [] OTHER -> TRUE

\* a || b
OrElse(a, b) == IF Truthy(a) THEN a ELSE b

(* ------------------------------ JSON.parse ---------------------------- *)

\* the members of a schema-valid day with empty workouts and meals:
\* "day":1,"focus":"upper","workouts":[],"meals":[]
DayMembers ==
  ("day" :> JNum(1)) @@ ("focus" :> JStr(<<"upper">>)) @@
  ("workouts" :> JArr(<<>>)) @@ ("meals" :> JArr(<<>>))

AtomOf ==
  ("0" :> JNum(0)) @@ ("null" :> JNull) @@ ("s" :> JStr(<<"s">>)) @@
  ("2400" :> JNum(2400)) @@ ("vegan" :> JStr(<<"vegan">>))

KeyOf ==
  ("week:" :> "week") @@ ("_meta:" :> "_meta") @@
  ("calorie_target:" :> "calorie_target") @@ ("diet_style:" :> "diet_style")

GroupOf ==
  ("D" :> DayMembers) @@ ("F" :> ("fallback" :> JTrue))

ParseFail == [ok |-> FALSE, value |-> JUndef, rest |-> <<>>]
ParseOk(v, rest) == [ok |-> TRUE, value |-> v, rest |-> rest]

RECURSIVE ParseValue(_), ParseElems(_, _), ParseMembers(_, _), ParseMember(_)

\* one JSON value at the head of toks
ParseValue(toks) ==
  IF toks = <<>> THEN ParseFail
  ELSE LET h == Head(toks)
           r == Tail(toks)
       IN CASE h \in DOMAIN AtomOf -> ParseOk(AtomOf[h], r)
            [] h = "[" ->
                 IF r # <<>> /\ Head(r) = "]" THEN ParseOk(JArr(<<>>), Tail(r))
                 ELSE ParseElems(r, <<>>)
            [] h = "{" ->
                 IF r # <<>> /\ Head(r) = "}" THEN ParseOk(EmptyObj, Tail(r))
                 ELSE ParseMembers(r, <<>>)
            [] OTHER -> ParseFail

\* value ("," value)* "]"
ParseElems(toks, acc) ==
  LET v == ParseValue(toks)
  IN IF ~v.ok \/ v.rest = <<>> THEN ParseFail
     ELSE IF Head(v.rest) = "]" THEN ParseOk(JArr(Append(acc, v.value)), Tail(v.rest))
     ELSE IF Head(v.rest) = "," THEN ParseElems(Tail(v.rest), Append(acc, v.value))
     ELSE ParseFail

\* a key with its value, or a group of members; value holds the members
ParseMember(toks) ==
  IF toks = <<>> THEN ParseFail
  ELSE LET h == Head(toks)
       IN IF h \in DOMAIN GroupOf THEN ParseOk(GroupOf[h], Tail(toks))
          ELSE IF h \in DOMAIN KeyOf
            THEN LET v == ParseValue(Tail(toks))
                 IN IF v.ok THEN ParseOk(KeyOf[h] :> v.value, v.rest) ELSE ParseFail
          ELSE ParseFail

\* member ("," member)* "}" ; a repeated key keeps its last value
ParseMembers(toks, acc) ==
  LET m == ParseMember(toks)
  IN IF ~m.ok \/ m.rest = <<>> THEN ParseFail
     ELSE IF Head(m.rest) = "}" THEN ParseOk(JObj(m.value @@ acc), Tail(m.rest))
     ELSE IF Head(m.rest) = "," THEN ParseMembers(Tail(m.rest), m.value @@ acc)
     ELSE ParseFail

NotSpace(c) == c # "_"

\* JSON.parse(text): white space between tokens is insignificant, the whole
\* text must be one value; ok = FALSE is the SyntaxError
JSONparse(text) ==
  LET v == ParseValue(SelectSeq(text, NotSpace))
  IN IF v.ok /\ v.rest = <<>> THEN [ok |-> TRUE, value |-> v.value]
     ELSE [ok |-> FALSE, value |-> JUndef]

\* text.indexOf(c), text.lastIndexOf(c): zero-based, -1 when absent
indexOf(text, c) ==
  IF \E i \in 1..Len(text) : text[i] = c
  THEN (CHOOSE i \in 1..Len(text) : text[i] = c /\ \A j \in 1..(i - 1) : text[j] # c) - 1
  ELSE -1

lastIndexOf(text, c) ==
  IF \E i \in 1..Len(text) : text[i] = c
  THEN (CHOOSE i \in 1..Len(text) : text[i] = c /\ \A j \in (i + 1)..Len(text) : text[j] # c) - 1
  ELSE -1

\* a mutant of slice: the end index taken as inclusive, one character short
sliceExclusive(text, from, to) == SubSeq(text, from + 1, to - 1)

\* text.slice(from, to): zero-based, to exclusive
slice(text, from, to) == SubSeq(text, from + 1, to)

\* a mutant of tryParseJSON: the brace-delimited substring tried before the
\* whole text
tryParseJSONSalvageFirst(text) ==
  LET whole == JSONparse(text)
      first == indexOf(text, "{")
      last == lastIndexOf(text, "}")
      inner == JSONparse(slice(text, first, last + 1))
  IN IF first # -1 /\ last # -1 /\ last > first /\ inner.ok
     THEN [ok |-> TRUE, value |-> inner.value]
     ELSE IF whole.ok THEN [ok |-> TRUE, value |-> whole.value]
     ELSE [ok |-> FALSE, raw |-> text]

\* a mutant of tryParseJSON: the failure reports the substring it last tried
tryParseJSONRawSubstring(text) ==
  LET whole == JSONparse(text)
      first == indexOf(text, "{")
      last == lastIndexOf(text, "}")
      inner == JSONparse(slice(text, first, last + 1))
  IN IF whole.ok THEN [ok |-> TRUE, value |-> whole.value]
     ELSE IF first # -1 /\ last # -1 /\ last > first
       THEN IF inner.ok THEN [ok |-> TRUE, value |-> inner.value]
            ELSE [ok |-> FALSE, raw |-> slice(text, first, last + 1)]
     ELSE [ok |-> FALSE, raw |-> text]

\* tryParseJSON(text): the whole text, else the substring from the first "{" to
\* the last "}", else the failure carrying the text
tryParseJSON(text) ==
  LET whole == JSONparse(text)
      first == indexOf(text, "{")
      last == lastIndexOf(text, "}")
      inner == JSONparse(slice(text, first, last + 1))
  IN IF whole.ok THEN [ok |-> TRUE, value |-> whole.value]
     ELSE IF first # -1 /\ last # -1 /\ last > first /\ inner.ok
       THEN [ok |-> TRUE, value |-> inner.value]
     ELSE [ok |-> FALSE, raw |-> text]

(* ---------------------------- JSON.stringify -------------------------- *)

RECURSIVE Stringify(_), StringifyValue(_)

\* the value a reader of JSON.stringify(v) gets back: undefined members are
\* dropped, undefined items and NaN become null, and the named properties set
\* on an array are not written out
StringifyValue(v) ==
  CASE v.t = "obj" ->
         JObj([k \in {j \in DOMAIN v.f : v.f[j].t # "undefined"} |-> Stringify(v.f[k])])
    [] v.t = "arr" ->
         JArr([i \in 1..Len(v.items) |->
                 IF v.items[i].t = "undefined" THEN JNull ELSE Stringify(v.items[i])])
    [] v.t = "nan" -> JNull
    [] OTHER -> v

\* JSON.stringify(value), read back; value is evaluated once and bound to v
Stringify(value) == CHOOSE s \in {StringifyValue(v) : v \in {value}} : TRUE

\* ${v} in a template literal, as a run of text pieces
TemplateText(v) ==
  CASE v.t = "str" -> v.s
    [] v.t = "num" -> <<ToString(v.n)>>
    [] v.t = "nan" -> <<"NaN">>
    [] v.t = "bool" -> <<ToString(v.b)>>
    [] v.t = "arr" -> <<>>
    [] v.t = "undefined" -> <<"undefined">>
    [] v.t = "null" -> <<"null">>
    [] OTHER -> <<"[object Object]">>

(* ------------------------------ planFallback -------------------------- *)

\* Number(v) for the values a profile member can hold; the strings of the
\* model are words, not numerals
ToNumber(v) ==
  CASE v.t = "num" -> v
    [] v.t = "bool" -> JNum(IF v.b THEN 1 ELSE 0)
    [] v.t = "null" -> JNum(0)
    [] OTHER -> JNaN

RECURSIVE Pow2Below(_, _)
\* the largest power of two p = 2^e (from p0 up) with 20p <= 7k, i.e. 2^e <= 0.35k
Pow2Below(k, p) == IF 40 * p <= 7 * k THEN Pow2Below(k, 2 * p) ELSE p

\* Math.round(k * 0.25): 0.25 is a binary fraction, the product is exact and
\* Math.round takes a tie to the larger integer
RoundQuarter(k) == (25 * k + 50) \div 100

\* a mutant of RoundTwoFifths: Math.floor in place of Math.round
FloorTwoFifths(k) == (40 * k) \div 100

\* Math.round(k * 0.40): the product is never within 0.05 of a tie
RoundTwoFifths(k) == (40 * k + 50) \div 100

\* Math.round(k * 0.35): the double nearest 0.35 is 0.35 - 0.4 * 2^-54, so at a
\* tie (k = 10 mod 20) the product, rounded to 53 bits, falls just under the
\* tie when it lies in the upper quarter of its binade (5 * 2^e < k, where
\* 2^e <= 0.35k < 2^(e+1)) and Math.round then gives the smaller integer
RoundSevenTwentieths(k) ==
  LET exact == (35 * k + 50) \div 100
  IN IF k > 0 /\ k % 20 = 10 /\ 5 * Pow2Below(k, 1) < k THEN exact - 1 ELSE exact

\* Math.round(kcal * share) for the three shares of planFallback
RoundShare(kcal, share) ==
  IF kcal.t # "num" THEN JNaN
  ELSE JNum(CASE share = 25 -> RoundQuarter(kcal.n)
              [] share = 40 -> RoundTwoFifths(kcal.n)
              [] OTHER -> RoundSevenTwentieths(kcal.n))

StrArr(ss) == JArr([i \in 1..Len(ss) |-> JStr(<<ss[i]>>)])

Workout(exercise, sets, reps, rest, notes) ==
  JObj(("exercise" :> JStr(<<exercise>>)) @@ ("sets" :> JNum(sets)) @@
       ("reps" :> JStr(<<reps>>)) @@ ("rest_sec" :> JNum(rest)) @@
       (IF notes = "" THEN <<>> ELSE ("notes" :> JStr(<<notes>>))))

Meal(name, kcal, protein, carbs, fat, ingredients, instructions) ==
  JObj(("name" :> JStr(<<name>>)) @@ ("kcal" :> kcal) @@
       ("protein_g" :> JNum(protein)) @@ ("carbs_g" :> JNum(carbs)) @@
       ("fat_g" :> JNum(fat)) @@ ("ingredients" :> StrArr(ingredients)) @@
       ("instructions" :> StrArr(instructions)))

FallbackWorkouts ==
  JArr(<< Workout("Back Squat", 5, "5", 120, "Stay tight; neutral spine."),
          Workout("Bench Press", 5, "5", 120, "Shoulder blades retracted."),
          Workout("Romanian Deadlift", 3, "8-10", 90, ""),
          Workout("DB Row", 3, "10-12", 75, ""),
          Workout("Walking Lunge", 3, "12/leg", 60, ""),
          Workout("Plank", 3, "60s", 45, "") >>)

FallbackMeals(kcal) ==
  JArr(<< Meal("Greek Yogurt Bowl", RoundShare(kcal, 25), 35, 40, 10,
               <<"Greek yogurt", "berries", "honey", "granola">>,
               <<"Mix yogurt + honey", "Top with berries + granola">>),
          Meal("Chicken Burrito Bowl", RoundShare(kcal, 40), 45, 60, 18,
               <<"chicken", "rice", "black beans", "corn", "salsa", "greens">>,
               <<"Cook chicken", "Assemble bowl with rice/beans/veg">>),
          Meal("Salmon + Veg + Quinoa", RoundShare(kcal, 35), 40, 40, 20,
               <<"salmon", "quinoa", "broccoli", "olive oil", "lemon">>,
               <<"Bake salmon", "Steam broccoli", "Cook quinoa",
                 "Plate & drizzle oil + lemon">>) >>)

\* _meta: { fallback: true, ...meta } : a key of meta overrides fallback
FallbackMeta(meta) == JObj(meta @@ ("fallback" :> JTrue))

\* planFallback(profile, meta); meta is the member function of the meta object
planFallback(profile, meta) ==
  LET kcal == ToNumber(OrElse(Get(profile, "calorie_target"), JNum(2200)))
      diet == OrElse(Get(profile, "diet_style"), JStr(<<"balanced">>))
  IN JObj(
       ("week" :> JArr(<< JObj(("day" :> JNum(1)) @@ ("focus" :> JStr(<<"full">>)) @@
                               ("workouts" :> FallbackWorkouts) @@
                               ("meals" :> FallbackMeals(kcal))) >>)) @@
       ("notes" :> JStr(<<"Fallback plan - diet: ">> \o TemplateText(diet) \o
                        <<" - target ~">> \o TemplateText(kcal) \o <<" kcal/day.">>)) @@
       ("_meta" :> FallbackMeta(meta)))

(* ------------------------------ responses ----------------------------- *)

cors ==
  {"Access-Control-Allow-Origin", "Access-Control-Allow-Headers",
   "Access-Control-Allow-Methods"}

\* json(code, obj): body holds the value the body text denotes
json(code, obj) ==
  [statusCode |-> code, headers |-> {"Content-Type"} \cup cors, body |-> Stringify(obj)]

(* ------------------------------ state --------------------------------- *)

\* OPENAI_API_KEY, OPENAI_MODEL: process.env, "" when unset; per request r:
\* pc      where the invocation of the handler stands
\* event   the event it was invoked with
\* script  what the backend does with the first and the second call
\* profile the handler's local of that name, once the body is parsed
\* out     the texts chatJSON returned so far (out.text, out2.text)
\* calls   the requests sent to the backend, in order
\* inflight the number of backend calls not yet settled
\* resp    the response returned; via: the return statement that produced it
\* and, for a helper function called on its own:
\* args    the function and its arguments; returned: what the call gave back
VARIABLES OPENAI_API_KEY, OPENAI_MODEL, pc, event, script, profile, out, calls,
          inflight, resp, via, args, returned

vars == <<OPENAI_API_KEY, OPENAI_MODEL, pc, event, script, profile, out, calls,
          inflight, resp, via, args, returned>>

Reqs == {1, 2}

MODEL == IF OPENAI_MODEL # "" THEN OPENAI_MODEL ELSE "gpt-3.5-turbo"

(* ------------------------------ handler ------------------------------- *)

\* how a synchronous run of the handler ends: a return, a throw, or an await
\* of a backend call (keeping the locals the continuation reads)
Return(r, site) == [k |-> "return", resp |-> r, site |-> site]
Throw(e) == [k |-> "throw", error |-> e]
Await(call, prof, text) == [k |-> "await", call |-> call, profile |-> prof, text |-> text]

NoBody == [t |-> "empty"]
NoResp == [statusCode |-> 0, headers |-> {}, body |-> JUndef]

Reason(why) == "reason" :> JStr(<<why>>)

\* a mutant of NewURL: the query string is not read
NewURLTestIgnored(s) ==
  [ok |-> s # <<>> /\ Head(s) \in {"https://h", "https://x"}, test |-> "null"]

\* new URL(s): throws unless s starts with a scheme and host; searchParams.get('test')
NewURL(s) ==
  [ok |-> s # <<>> /\ Head(s) \in {"https://h", "https://x"},
   test |-> IF \E i \in 1..Len(s) : s[i] = "?test=1" THEN "1" ELSE "null"]

systemPrompt == <<"systemPrompt">>

\* the messages array of the first call
messages(prof) ==
  [system |-> systemPrompt,
   user |-> [head |-> "User profile JSON:", profile |-> Stringify(prof),
             tail |-> "Return ONLY the JSON object."]]

\* the messages array of the retry
strictMessages(prof) ==
  [system |-> systemPrompt \o <<"STRICT: Reply must be only a single JSON object.">>,
   user |-> messages(prof).user]

\* the fetch chatJSON issues; temperature in tenths
chatJSONRequest(key, model, msgs, temperature) ==
  [url |-> "https://api.openai.com/v1/chat/completions", bearer |-> key,
   model |-> model, response_format |-> "json_object", messages |-> msgs,
   temperature |-> temperature, max_tokens |-> 3000]

\* chatJSON once its fetch has settled with reply
chatJSONResult(reply) ==
  CASE reply.k \in {"reject", "timeout"} -> Throw("TypeError: fetch failed")
    [] reply.k = "status" -> Throw("Error: OpenAI status")
    [] reply.k = "notjson" -> Throw("SyntaxError: envelope")
    [] OTHER -> [k |-> "value",
                 text |-> IF reply.data.content # <<>> THEN reply.data.content[1] ELSE <<>>]

\* { model: MODEL, retry }
modelMeta(retry) ==
  JObj(("model" :> JStr(<<MODEL>>)) @@ ("retry" :> (IF retry THEN JTrue ELSE JFalse)))

\* parsed.value._meta = meta, in a CommonJS (non-strict) module: a TypeError on
\* null, silently nothing on a number, string or boolean, a named property on
\* an array, a member (replacing the model's own) on an object
setMeta(value, meta) ==
  CASE value.t = "obj" -> [k |-> "value", value |-> JObj(("_meta" :> meta) @@ value.f)]
    [] value.t = "arr" ->
         [k |-> "value", value |-> [value EXCEPT !.props = ("_meta" :> meta) @@ @]]
    [] value.t \in {"null", "undefined"} -> Throw("TypeError: cannot set properties")
    [] OTHER -> [k |-> "value", value |-> value]

\* a mutant of parseFailed: the retry is issued whatever the first parse gave
retryAlways(parsed) == TRUE

\* if (!parsed.ok): the retry condition
parseFailed(parsed) == ~parsed.ok

\* a mutant of noKey: the negation dropped
noKeyInverted == OPENAI_API_KEY # ""

\* if (!OPENAI_API_KEY)
noKey == OPENAI_API_KEY = ""

\* a mutant of rawText: the first attempt's text reported
rawTextFirst(text2, text1) == text1

\* out2.text || out.text
rawText(text2, text1) == IF text2 # <<>> THEN text2 ELSE text1

\* a mutant of catch: the error surfaced as a server error, as the earlier
\* revision of the function did
catchStatus500(o) ==
  IF o.k = "throw"
  THEN Return(json(500, JObj("error" :> JStr(<<o.error>>))), "catch")
  ELSE o

\* a mutant of catch: the handler names the try block's profile, out of scope
\* here, and the ReferenceError leaves the handler
catchOutOfScope(o) ==
  IF o.k = "throw" THEN Throw("ReferenceError: profile is not defined") ELSE o

\* catch (e): a valid plan even on unexpected errors
catch(o) ==
  IF o.k = "throw"
  THEN Return(json(200, planFallback(EmptyObj, Reason("exception") @@
                                               ("error" :> JStr(<<o.error>>)))), "catch")
  ELSE o

\* the try block up to the first await
tryBody(ev) ==
  IF ev.httpMethod # "POST"
  THEN Return(json(405, JObj("error" :> JStr(<<"Use POST">>))), "method")
  ELSE LET body == JSONparse(IF ev.body # <<>> THEN ev.body ELSE <<"{", "}">>)
           url == NewURL(IF ev.rawUrl # <<>> THEN ev.rawUrl ELSE <<"https://x">> \o ev.path)
       IN IF ~body.ok THEN Throw("SyntaxError: body")
          ELSE IF noKey
            THEN Return(json(200, planFallback(body.value, Reason("missing_api_key"))), "nokey")
          ELSE IF ~url.ok THEN Throw("TypeError: Invalid URL")
          ELSE IF url.test = "1"
            THEN Return(json(200, planFallback(body.value, Reason("test_mode"))), "test")
          ELSE Await(chatJSONRequest(OPENAI_API_KEY, MODEL, messages(body.value), 6),
                     body.value, <<>>)

\* a mutant of handlerStart: the method is not looked at
handlerStartAnyMethod(ev) == catch(tryBody([ev EXCEPT !.httpMethod = "POST"]))

\* the handler from its entry to its first await or return
handlerStart(ev) ==
  IF ev.httpMethod = "OPTIONS"
  THEN Return([statusCode |-> 204, headers |-> cors, body |-> NoBody], "options")
  ELSE catch(tryBody(ev))

\* the try block from the settling of the first call to the second await or a return
afterFirst(reply, prof) ==
  LET o == chatJSONResult(reply)
      parsed == tryParseJSON(o.text)
      tagged == setMeta(parsed.value, modelMeta(FALSE))
  IN IF o.k = "throw" THEN o
     ELSE IF parseFailed(parsed)
       THEN Await(chatJSONRequest(OPENAI_API_KEY, MODEL, strictMessages(prof), 4),
                  prof, o.text)
     ELSE IF tagged.k = "throw" THEN tagged
     ELSE Return(json(200, tagged.value), "first")

\* the try block from the settling of the retry to the return
afterSecond(reply, prof, outText) ==
  LET o2 == chatJSONResult(reply)
      parsed2 == tryParseJSON(o2.text)
      tagged == setMeta(parsed2.value, modelMeta(TRUE))
      raw == rawText(o2.text, outText)
  IN IF o2.k = "throw" THEN o2
     ELSE IF ~parsed2.ok
       THEN Return(json(200, planFallback(prof, Reason("bad_json") @@
                                                ("model" :> JStr(<<MODEL>>)) @@
                                                ("raw" :> JStr(raw)))), "bad_json")
     ELSE IF tagged.k = "throw" THEN tagged
     ELSE Return(json(200, tagged.value), "retry")

(* ------------------------------ inputs -------------------------------- *)

PlanText == <<"{", "week:", "[", "{", "D", "}", "]", "}">>

\* request bodies: none (undefined or ''), not JSON, null, {}, a profile
Bodies ==
  { <<>>, <<"x">>, <<"null">>, <<"{", "}">>,
    <<"{", "calorie_target:", "2400", ",", "diet_style:", "vegan", "}">> }

\* event.rawUrl: unset (the URL is built from event.path), with test=1, not a URL
RawUrls == { <<>>, <<"https://h", "/gp", "?test=1">>, <<"::">> }

Events ==
  [httpMethod : {"POST", "GET", "OPTIONS"}, body : Bodies, rawUrl : RawUrls,
   path : {<<"/gp">>}]

\* texts the model may put in choices[0].message.content
BackendTexts ==
  { PlanText,
    <<"{", "week:", "[", "{", "D", "}", "]", ",", "_meta:", "{", "F", "}", "}">>,
    <<"{", "}">>, <<"[", "]">>, <<"0">>, <<"null">>,
    <<"fence", "_">> \o PlanText \o <<"_", "fence">>,
    <<"x", "x">>, <<"x">> }

\* the response envelope, each known text position absent (<<>>) or <<text>>
Envelope(outputText, content, text) ==
  [output_text |-> outputText, content |-> content, text |-> text]

\* data?.output_text || data?.choices?.[0]?.message?.content ||
\* data?.choices?.[0]?.text || '' : the probe of the Responses-API revision
probeText(data) ==
  IF data.output_text # <<>> /\ data.output_text[1] # <<>> THEN data.output_text[1]
  ELSE IF data.content # <<>> /\ data.content[1] # <<>> THEN data.content[1]
  ELSE IF data.text # <<>> /\ data.text[1] # <<>> THEN data.text[1]
  ELSE <<>>

\* what the backend does with one call: answers 200 with an envelope (the text
\* in message.content, possibly empty; only in output_text; nowhere), answers a
\* non-OK status, answers 200 with a body that is not JSON, the connection
\* fails, or it never answers
Replies ==
  { [k |-> "ok", data |-> Envelope(<<>>, <<t>>, <<>>)] : t \in BackendTexts \cup {<<>>} }
  \cup { [k |-> "ok", data |-> Envelope(<<PlanText>>, <<>>, <<>>)],
         [k |-> "ok", data |-> Envelope(<<>>, <<>>, <<>>)] }
  \cup { [k |-> kind] : kind \in {"status", "notjson", "reject", "timeout"} }

Scripts == [1..2 -> Replies]

IdleEvent == [httpMethod |-> "POST", body |-> <<>>, rawUrl |-> <<>>, path |-> <<"/gp">>]
IdleScript == [i \in 1..2 |-> [k |-> "reject"]]

\* the state of the requests in A at their invocation, with events of E and
\* backend scripts of S, the others not invoked
InitRequests(A, E, S) ==
  /\ \E e \in [A -> E], s \in [A -> S] :
       /\ event = [r \in Reqs |-> IF r \in A THEN e[r] ELSE IdleEvent]
       /\ script = [r \in Reqs |-> IF r \in A THEN s[r] ELSE IdleScript]
  /\ pc = [r \in Reqs |-> IF r \in A THEN "start" ELSE "idle"]
  /\ profile = [r \in Reqs |-> JUndef]
  /\ out = [r \in Reqs |-> <<>>]
  /\ calls = [r \in Reqs |-> <<>>]
  /\ inflight = [r \in Reqs |-> 0]
  /\ resp = [r \in Reqs |-> NoResp]
  /\ via = [r \in Reqs |-> "none"]

\* no helper function is called on its own
NoArgs == [fn |-> "none"]
NotReturned == [k |-> "pending"]

Init ==
  /\ OPENAI_API_KEY \in {"", "sk-test"}
  /\ OPENAI_MODEL \in {"", "gpt-4o-mini"}
  /\ InitRequests({1}, Events, Scripts)
  /\ args = NoArgs /\ returned = NotReturned

(* ------------------------------ actions ------------------------------- *)

\* a mutant of Take: a call that is over is not given up (a deadline that
\* does not cancel), so it stays outstanding while the handler goes on
TakeLeavesOutstanding(r, outcome, next, settled) ==
  \E o \in {outcome} :
    /\ pc' = [pc EXCEPT ![r] = CASE o.k = "return" -> "done"
                                 [] o.k = "throw" -> "rejected"
                                 [] OTHER -> next]
    /\ resp' = [resp EXCEPT ![r] = IF o.k = "return" THEN o.resp ELSE @]
    /\ via' = [via EXCEPT ![r] = IF o.k = "return" THEN o.site ELSE @]
    /\ calls' = [calls EXCEPT ![r] = IF o.k = "await" THEN Append(@, o.call) ELSE @]
    /\ inflight' = [inflight EXCEPT ![r] = IF o.k = "await" THEN @ + 1 ELSE @]
    /\ profile' = [profile EXCEPT ![r] = IF o.k = "await" THEN o.profile ELSE @]

\* request r takes the outcome of a synchronous run of the handler, after
\* settled of its calls have settled; an await moves it to next
Take(r, outcome, next, settled) ==
  \E o \in {outcome} :
    /\ pc' = [pc EXCEPT ![r] = CASE o.k = "return" -> "done"
                                 [] o.k = "throw" -> "rejected"
                                 [] OTHER -> next]
    /\ resp' = [resp EXCEPT ![r] = IF o.k = "return" THEN o.resp ELSE @]
    /\ via' = [via EXCEPT ![r] = IF o.k = "return" THEN o.site ELSE @]
    /\ calls' = [calls EXCEPT ![r] = IF o.k = "await" THEN Append(@, o.call) ELSE @]
    /\ inflight' = [inflight EXCEPT ![r] =
                      IF o.k = "await" THEN @ - settled + 1 ELSE @ - settled]
    /\ profile' = [profile EXCEPT ![r] = IF o.k = "await" THEN o.profile ELSE @]

\* the platform invokes the handler: it runs to its first await or return
Invoke(r) ==
  /\ pc[r] = "start"
  /\ Take(r, handlerStart(event[r]), "await1", 0)
  /\ UNCHANGED <<OPENAI_API_KEY, OPENAI_MODEL, event, script, out, args, returned>>

\* a mutant of Settle: profile kept in a module-level variable, which a
\* request invoked meanwhile has overwritten
SettleSharedProfile(r, n, reply) ==
  LET shared == IF \E q \in Reqs \ {r} : profile[q] # JUndef
                THEN profile[CHOOSE q \in Reqs \ {r} : profile[q] # JUndef]
                ELSE profile[r]
      o == IF n = 1 THEN catch(afterFirst(reply, shared))
           ELSE catch(afterSecond(reply, shared, out[r][1]))
      got == chatJSONResult(reply)
  IN /\ inflight[r] > 0
     /\ Take(r, o, "await2", 1)
     /\ out' = [out EXCEPT ![r] = IF got.k = "value" THEN Append(@, got.text) ELSE @]
     /\ UNCHANGED <<OPENAI_API_KEY, OPENAI_MODEL, event, script, args, returned>>

\* a mutant of Settle: out kept in a module-level variable, which a request
\* served meanwhile has overwritten
SettleSharedOut(r, n, reply) ==
  LET shared == IF \E q \in Reqs \ {r} : out[q] # <<>>
                THEN out[CHOOSE q \in Reqs \ {r} : out[q] # <<>>][1]
                ELSE out[r][1]
      o == IF n = 1 THEN catch(afterFirst(reply, profile[r]))
           ELSE catch(afterSecond(reply, profile[r], shared))
      got == chatJSONResult(reply)
  IN /\ inflight[r] > 0
     /\ Take(r, o, "await2", 1)
     /\ out' = [out EXCEPT ![r] = IF got.k = "value" THEN Append(@, got.text) ELSE @]
     /\ UNCHANGED <<OPENAI_API_KEY, OPENAI_MODEL, event, script, args, returned>>

\* the fetch of call n settles with reply; the handler runs on from its await
Settle(r, n, reply) ==
  LET o == IF n = 1 THEN catch(afterFirst(reply, profile[r]))
           ELSE catch(afterSecond(reply, profile[r], out[r][1]))
      got == chatJSONResult(reply)
  IN /\ inflight[r] > 0
     /\ Take(r, o, "await2", 1)
     /\ out' = [out EXCEPT ![r] = IF got.k = "value" THEN Append(@, got.text) ELSE @]
     /\ UNCHANGED <<OPENAI_API_KEY, OPENAI_MODEL, event, script, args, returned>>

\* the backend answers the first call (or the connection fails)
Resume1(r) ==
  /\ pc[r] = "await1"
  /\ script[r][1].k # "timeout"
  /\ Settle(r, 1, script[r][1])

\* the backend answers the retry (or the connection fails)
Resume2(r) ==
  /\ pc[r] = "await2"
  /\ script[r][2].k # "timeout"
  /\ Settle(r, 2, script[r][2])

\* the backend never answers: chatJSON sets no deadline, so the call stays
\* pending unless the runtime itself gives the connection up, which rejects
\* the fetch
RuntimeTimeout(r) ==
  /\ pc[r] \in {"await1", "await2"}
  /\ LET n == IF pc[r] = "await1" THEN 1 ELSE 2
     IN script[r][n].k = "timeout" /\ Settle(r, n, script[r][n])

Next ==
  \E r \in Reqs : Invoke(r) \/ Resume1(r) \/ Resume2(r) \/ RuntimeTimeout(r)

Spec == Init /\ [][Next]_vars

\* the event loop runs a continuation once its promise has settled, and a
\* backend that answers does so eventually; nothing makes the runtime give up
\* a call the backend never answers
Fairness ==
  \A r \in Reqs : WF_vars(Invoke(r)) /\ WF_vars(Resume1(r)) /\ WF_vars(Resume2(r))

\* the requests that reach the backend, against a backend that answers with a
\* plan or with prose, refuses, or never answers
LiveEvents ==
  [httpMethod : {"POST"}, body : {<<>>, <<"null">>}, rawUrl : {<<>>, <<"::">>},
   path : {<<"/gp">>}]

LiveReplies ==
  { [k |-> "ok", data |-> Envelope(<<>>, <<t>>, <<>>)] : t \in {PlanText, <<"x">>} }
  \cup { [k |-> kind] : kind \in {"status", "timeout"} }

LiveInit ==
  /\ OPENAI_API_KEY \in {"", "sk-test"}
  /\ OPENAI_MODEL = ""
  /\ InitRequests({1}, LiveEvents, [1..2 -> LiveReplies])
  /\ args = NoArgs /\ returned = NotReturned

FairSpec == LiveInit /\ [][Next]_vars /\ Fairness

(* ------------------------------ two requests at once ----------------- *)

\* two POST requests, with no body or with a profile, against a backend that
\* answers with a plan, with prose, with no text, or never answers
PairEvents ==
  [httpMethod : {"POST"},
   body : { <<>>, <<"{", "calorie_target:", "2400", ",", "diet_style:", "vegan", "}">> },
   rawUrl : {<<>>}, path : {<<"/gp">>}]

PairReplies ==
  { [k |-> "ok", data |-> Envelope(<<>>, <<t>>, <<>>)] : t \in {PlanText, <<"x">>, <<"x", "x">>} }
  \cup { [k |-> "ok", data |-> Envelope(<<>>, <<>>, <<>>)] }
  \cup { [k |-> "timeout"] }

\* both requests are invoked; the instance serves them interleaved at their
\* awaits
PairInit ==
  /\ OPENAI_API_KEY \in {"", "sk-test"}
  /\ OPENAI_MODEL = ""
  /\ InitRequests({1, 2}, PairEvents, [1..2 -> PairReplies])
  /\ args = NoArgs /\ returned = NotReturned

PairSpec == PairInit /\ [][Next]_vars

\* the response the handler gives to an event when it runs alone against a
\* backend that answers its calls as scr says
RunAlone(ev, scr) ==
  LET o0 == handlerStart(ev)
      o1 == catch(afterFirst(scr[1], o0.profile))
      o2 == catch(afterSecond(scr[2], o1.profile, o1.text))
  IN IF o0.k # "await" THEN o0
     ELSE IF o1.k # "await" THEN o1
     ELSE o2

(* ------------------------------ the helpers on their own -------------- *)

\* parseJsonFromResponse(text) of the earlier revision: the whole text, else
\* the match of /\{[\s\S]*\}/ (from the first "{" to the last "}" after it),
\* and a throw where tryParseJSON returns a failure
parseJsonFromResponse(text) ==
  LET whole == JSONparse(text)
      first == indexOf(text, "{")
      last == lastIndexOf(text, "}")
      match == slice(text, first, last + 1)
  IN IF whole.ok THEN [k |-> "value", value |-> whole.value]
     ELSE IF first # -1 /\ last > first
       THEN IF JSONparse(match).ok THEN [k |-> "value", value |-> JSONparse(match).value]
            ELSE Throw("SyntaxError: match")
     ELSE Throw("Error: Response did not contain valid JSON")

\* the scalar fields the earlier revision interpolates as they are
ScalarFields ==
  { "age", "sex", "height_cm", "weight_kg", "training_for", "activity_level",
    "training_time", "session_length", "days_per_week", "equipment_access",
    "diet_style", "calorie_target", "sleep_hours", "stress_level", "motivation",
    "tracking_pref", "reminders" }

\* the fields destructured with the default []
ListFields == { "sports", "equipment", "injuries", "medical", "allergies", "food_dislikes" }

\* protein_per_lb: proteinPerLb = profile.protein_lb : the default applies to
\* undefined only
proteinPerLb(prof) ==
  IF Get(prof, "protein_per_lb").t = "undefined" THEN Get(prof, "protein_lb")
  ELSE Get(prof, "protein_per_lb")

\* parseFloat((weight_kg * 2.20462).toFixed(1)) as text: tenths, a zero tenth
\* dropped
PoundsText(kg) ==
  LET tenths == (kg * 220462 + 5000) \div 10000
  IN IF tenths % 10 = 0 THEN <<ToString(tenths \div 10)>>
     ELSE <<ToString(tenths \div 10), ".", ToString(tenths % 10)>>

\* ${weightLb ?? 'n/a'}: the weight_lb given, else converted from weight_kg
weightLb(prof) ==
  LET given == Get(prof, "weight_lb")
      kg == Get(prof, "weight_kg")
  IN IF Truthy(given) THEN TemplateText(ToNumber(given))
     ELSE IF Truthy(kg) THEN (IF kg.t = "num" THEN PoundsText(kg.n) ELSE <<"NaN">>)
     ELSE <<"n/a">>

\* the list field as destructured: [] when undefined, the value otherwise
ListOf(prof, f) ==
  IF Get(prof, f).t = "undefined" THEN JArr(<<>>) ELSE Get(prof, f)

\* x.length ? x.join(', ') : 'none' does not evaluate: x is null, or x has a
\* length and no join (a non-empty string)
ListThrows(x) == x.t = "null" \/ (x.t = "str" /\ x.s # <<>>)

\* x.length ? x.join(', ') : 'none', the items as pieces
ListText(x) ==
  IF x.t = "arr" /\ Len(x.items) > 0
  THEN [i \in 1..Len(x.items) |-> TemplateText(x.items[i])[1]]
  ELSE <<"none">>

\* the prompt of the earlier revision, as the text rendered for each field, or
\* the TypeError of the destructuring (profile null) or of a list field
prompt(prof) ==
  IF prof.t \in {"null", "undefined"}
  THEN Throw("TypeError: cannot destructure")
  ELSE IF \E f \in ListFields : ListThrows(ListOf(prof, f))
  THEN Throw("TypeError: cannot read properties")
  ELSE [k |-> "value",
        value |-> [f \in ScalarFields \cup ListFields \cup {"weightLb", "proteinPerLb"} |->
                     CASE f \in ListFields -> ListText(ListOf(prof, f))
                       [] f = "weightLb" -> weightLb(prof)
                       [] f = "proteinPerLb" -> TemplateText(proteinPerLb(prof))
                       [] OTHER -> TemplateText(Get(prof, f))]]

\* the fields varied over absent, null and present; the other scalars are
\* present, the other lists absent
VariedScalars ==
  { "age", "calorie_target", "weight_kg", "weight_lb", "protein_per_lb", "protein_lb" }
VariedLists == { "sports", "injuries" }

ScalarValues == { JUndef, JNull, JNum(80) }
ListValues == { JUndef, JNull, JArr(<<>>), JArr(<<JStr(<<"soccer">>)>>) }

\* a profile object of the members that are set
PromptProfileOf(sc, li) ==
  JObj([f \in { g \in ScalarFields \cup VariedScalars : g \in VariedScalars => sc[g] # JUndef }
              \cup { g \in VariedLists : li[g] # JUndef } |->
          IF f \in VariedScalars THEN sc[f]
          ELSE IF f \in VariedLists THEN li[f]
          ELSE JStr(<<"s">>)])

PromptProfiles ==
  { JNull, EmptyObj }
  \cup { PromptProfileOf(sc, li) : sc \in [VariedScalars -> ScalarValues],
                                  li \in [VariedLists -> ListValues] }

\* the longest text enumerated, in tokens
MaxTextLen == 4

\* the largest calorie target enumerated
MaxKcal == 100

TextTokens == {"{", "}", "[", "]", "0", "week:", "x", "_"}

\* every text of up to MaxTextLen tokens, and the texts of the backend
Texts == UNION { [1..n -> TextTokens] : n \in 0..MaxTextLen } \cup BackendTexts

\* profile.calorie_target: absent, zero, negative, not numeric, null, the
\* default, the spec's example, and every integer of 1..MaxKcal
CalorieTargets ==
  { JUndef, JNum(0), JNum(-90), JStr(<<"s">>), JNull, JNum(2200), JNum(2400) }
  \cup { JNum(k) : k \in 1..MaxKcal }

\* profile.diet_style: absent, empty, set
DietStyles == { JUndef, JStr(<<>>), JStr(<<"vegan">>) }

\* an object of the members that are set
ProfileOf(target, diet) ==
  JObj((IF target = JUndef THEN <<>> ELSE "calorie_target" :> target) @@
       (IF diet = JUndef THEN <<>> ELSE "diet_style" :> diet))

\* the profiles planFallback is given: undefined, null, and objects
Profiles ==
  { JUndef, JNull } \cup { ProfileOf(c, d) : c \in CalorieTargets, d \in DietStyles }

\* the meta objects planFallback is given: none, the handler's, and ones with
\* a fallback or a retry member of their own
Metas ==
  { <<>>, Reason("missing_api_key"),
    Reason("bad_json") @@ ("model" :> JStr(<<"gpt-3.5-turbo">>)) @@ ("raw" :> JStr(<<"x">>)),
    Reason("exception") @@ ("fallback" :> JFalse),
    ("fallback" :> JFalse) @@ ("retry" :> JFalse) }

HelperCalls ==
  { [fn |-> f, text |-> t] : f \in {"tryParseJSON", "parseJsonFromResponse"}, t \in Texts }
  \cup { [fn |-> "planFallback", profile |-> p, meta |-> m] : p \in Profiles, m \in Metas }
  \cup { [fn |-> "prompt", profile |-> p] : p \in PromptProfiles }

\* one helper is about to be called with arguments of its domain; no request
HelperInit ==
  /\ OPENAI_API_KEY = "" /\ OPENAI_MODEL = ""
  /\ InitRequests({}, Events, Scripts)
  /\ args \in HelperCalls
  /\ returned = NotReturned

HelperFrame ==
  UNCHANGED <<OPENAI_API_KEY, OPENAI_MODEL, pc, event, script, profile, out, calls,
              inflight, resp, via, args>>

CallTryParseJSON ==
  /\ args.fn = "tryParseJSON" /\ returned = NotReturned
  /\ returned' = tryParseJSON(args.text)
  /\ HelperFrame

CallParseJsonFromResponse ==
  /\ args.fn = "parseJsonFromResponse" /\ returned = NotReturned
  /\ returned' = parseJsonFromResponse(args.text)
  /\ HelperFrame

CallPlanFallback ==
  /\ args.fn = "planFallback" /\ returned = NotReturned
  /\ returned' = planFallback(args.profile, args.meta)
  /\ HelperFrame

\* the earlier revision builds its prompt from the parsed profile
BuildPrompt ==
  /\ args.fn = "prompt" /\ returned = NotReturned
  /\ returned' = prompt(args.profile)
  /\ HelperFrame

HelperNext ==
  CallTryParseJSON \/ CallParseJsonFromResponse \/ CallPlanFallback \/ BuildPrompt

HelperSpec == HelperInit /\ [][HelperNext]_vars

(* ------------------------------ the Plan schema ----------------------- *)

\* "focus": "upper|lower|full|recovery|conditioning|hypertrophy|power|mobility"
FocusEnum ==
  { <<"upper">>, <<"lower">>, <<"full">>, <<"recovery">>, <<"conditioning">>,
    <<"hypertrophy">>, <<"power">>, <<"mobility">> }

\* one entry of "week": day 1-7, a focus of the enum, workouts and meals arrays
IsDay(d) ==
  /\ d.t = "obj"
  /\ {"day", "focus", "workouts", "meals"} \subseteq DOMAIN d.f
  /\ d.f["day"].t = "num" /\ d.f["day"].n \in 1..7
  /\ d.f["focus"].t = "str" /\ d.f["focus"].s \in FocusEnum
  /\ d.f["workouts"].t = "arr"
  /\ d.f["meals"].t = "arr"

\* the schema of the system prompt, with the _meta record the handler attaches
IsPlan(b) ==
  /\ b.t = "obj"
  /\ {"week", "_meta"} \subseteq DOMAIN b.f
  /\ b.f["week"].t = "arr"
  /\ Len(b.f["week"].items) \in 1..7
  /\ \A i \in 1..Len(b.f["week"].items) : IsDay(b.f["week"].items[i])
  /\ b.f["_meta"].t = "obj"

(* ------------------------------ what a run shows ---------------------- *)

IsPost(r) == event[r].httpMethod = "POST"
Done(r) == pc[r] = "done"

\* the _meta member of the response body, and its members
Meta(r) == Get(resp[r].body, "_meta")
MetaOf(r, k) == Get(Meta(r), k)

\* the request body is absent or is JSON text
BodyParses(r) ==
  JSONparse(IF event[r].body # <<>> THEN event[r].body ELSE <<"{", "}">>).ok

\* the return statements that hand out planFallback's plan
FallbackSites == {"nokey", "test", "bad_json", "catch"}
\* the return statements that hand out the value parsed from the model's text
ModelSites == {"first", "retry"}

\* call n was issued and is over
Settled(r, n) ==
  /\ Len(calls[r]) >= n
  /\ pc[r] # (IF n = 1 THEN "await1" ELSE "await2")

\* attempt n ended in a Completion Client failure (status, fault, envelope, timeout)
ClientFailed(r, n) == Settled(r, n) /\ script[r][n].k # "ok"

\* attempt n returned a text (possibly empty) from which no JSON is extracted
ParseFailedAt(r, n) ==
  /\ Settled(r, n) /\ script[r][n].k = "ok"
  /\ Len(out[r]) >= n /\ ~tryParseJSON(out[r][n]).ok

AttemptFailed(r, n) == ClientFailed(r, n) \/ ParseFailedAt(r, n)

\* the deployment has no credential: process.env.OPENAI_API_KEY unset or empty
NoCredential == OPENAI_API_KEY = ""

(* ------------------------------ claims -------------------------------- *)

\* C1 (as claimed): for every POST request that ran into a missing credential or
\* a failed first attempt (whatever the second attempt then does), the response
\* body is a schema-valid Plan with a _meta record.
C1_FailurePathsYieldPlan ==
  \A r \in Reqs :
    (Done(r) /\ IsPost(r) /\ (NoCredential \/ AttemptFailed(r, 1))) => IsPlan(resp[r].body)

\* C2 (as claimed): every body returned for a POST request is Plan-shaped with
\* Metadata attached, whatever JSON value the model's text parses to.
C2_EveryPostBodyIsPlan ==
  \A r \in Reqs : (Done(r) /\ IsPost(r)) => IsPlan(resp[r].body)

\* C3: the handler never lets a fault out: no invocation ends rejected, and an
\* invocation that is over has returned a response with a status code.
C3_NoFaultPropagates ==
  \A r \in Reqs :
    /\ pc[r] # "rejected"
    /\ Done(r) => resp[r].statusCode \in {200, 204, 405}

\* C3 witness: a backend fault (a 200 answer whose envelope is not JSON) was
\* thrown inside the handler and the handler still returned a response.
C3_Witness ==
  \E r \in Reqs :
    /\ Done(r) /\ via[r] = "catch"
    /\ Len(calls[r]) = 1 /\ script[r][1].k = "notjson"
    /\ resp[r].statusCode = 200

\* C4 (as claimed): with no credential every POST request ends in Fallback with
\* fallback true and reason missing_api_key, and issues no backend call.
C4_AnyPostNoKeyIsMissingKey ==
  \A r \in Reqs :
    (NoCredential /\ IsPost(r)) =>
      /\ calls[r] = <<>>
      /\ Done(r) => /\ via[r] \in FallbackSites
                    /\ MetaOf(r, "fallback") = JTrue
                    /\ MetaOf(r, "reason") = JStr(<<"missing_api_key">>)

\* C4 (amended): with no credential no POST request ever issues a backend call,
\* and every POST request whose body is absent or parses as JSON ends in
\* Fallback with fallback true and reason missing_api_key.
C4_ParsedPostNoKeyIsMissingKey ==
  \A r \in Reqs :
    (NoCredential /\ IsPost(r)) =>
      /\ calls[r] = <<>> /\ inflight[r] = 0
      /\ (Done(r) /\ BodyParses(r)) =>
            /\ via[r] = "nokey"
            /\ MetaOf(r, "fallback") = JTrue
            /\ MetaOf(r, "reason") = JStr(<<"missing_api_key">>)

\* C4 witness: a POST with a profile body, answered without a credential.
C4_Witness ==
  \E r \in Reqs :
    /\ NoCredential /\ IsPost(r) /\ Done(r)
    /\ event[r].body = <<"{", "calorie_target:", "2400", ",", "diet_style:", "vegan", "}">>
    /\ MetaOf(r, "reason") = JStr(<<"missing_api_key">>)

\* C5 (as claimed): whenever attempt 1 ends in a parse failure or in any
\* Completion Client failure, attempt 2 is issued before the request ends, with
\* the strict instruction appended to the system prompt, the same user message
\* and a lower temperature.
C5_AnyFailureIsRetried ==
  \A r \in Reqs :
    (Done(r) /\ AttemptFailed(r, 1)) =>
      /\ Len(calls[r]) = 2
      /\ calls[r][2].messages.system =
           calls[r][1].messages.system \o <<"STRICT: Reply must be only a single JSON object.">>
      /\ calls[r][2].messages.user = calls[r][1].messages.user
      /\ calls[r][2].temperature < calls[r][1].temperature

\* C6: a request issues at most two backend calls, and a second call only
\* after the first has settled with a text that failed extraction.
C6_AtMostOneRetry ==
  \A r \in Reqs :
    /\ Len(calls[r]) <= 2
    /\ Len(calls[r]) = 2 =>
         /\ script[r][1].k = "ok"
         /\ Len(out[r]) >= 1 /\ ~tryParseJSON(out[r][1]).ok

\* C6 witness: a request that retried and is over, its retry having failed too.
C6_Witness ==
  \E r \in Reqs : Done(r) /\ Len(calls[r]) = 2 /\ AttemptFailed(r, 2)

\* C7 (as claimed): if the call of attempt 1 times out and the backend answers
\* attempt 2 with valid JSON, the response is the model's plan with retry true
\* and no true fallback flag.
C7_TimeoutThenValidIsRetried ==
  \A r \in Reqs :
    ( /\ Done(r) /\ Len(calls[r]) >= 1
      /\ script[r][1].k = "timeout"
      /\ script[r][2].k = "ok" /\ script[r][2].data.content = <<PlanText>>
      /\ JSONparse(PlanText).ok )
    => /\ via[r] = "retry"
       /\ MetaOf(r, "retry") = JTrue
       /\ MetaOf(r, "fallback") # JTrue

\* both attempts returned a text and neither text yields JSON
BothTextsFail(r) == Done(r) /\ ParseFailedAt(r, 1) /\ ParseFailedAt(r, 2)

C9_EveryRequestResponds ==
  \A r \in Reqs : (pc[r] = "start") ~> Done(r)

\* C10 (as claimed): in every POST response _meta.fallback is true exactly when
\* the body comes from the Fallback Generator, and a body derived from model
\* output carries _meta with the model identity, the retry flag and no true
\* fallback flag.
C10_ProvenanceInMeta ==
  \A r \in Reqs :
    (Done(r) /\ IsPost(r) /\ resp[r].statusCode = 200) =>
      /\ (MetaOf(r, "fallback") = JTrue) <=> (via[r] \in FallbackSites)
      /\ via[r] \in ModelSites =>
           /\ MetaOf(r, "model") = JStr(<<MODEL>>)
           /\ MetaOf(r, "retry") = (IF via[r] = "retry" THEN JTrue ELSE JFalse)
           /\ MetaOf(r, "fallback") # JTrue

(* ------------------------------ claims C11 to C20 --------------------- *)

\* the value the request body parses to (the body absent reads as {})
ParsedBody(r) ==
  JSONparse(IF event[r].body # <<>> THEN event[r].body ELSE <<"{", "}">>).value

\* C11 (as claimed): a POST request whose body is not valid JSON makes no
\* backend call and is answered with a non-plan error response, never with a
\* Fallback Plan, whether or not a credential is configured.
C11_MalformedBodyIsRejected ==
  \A r \in Reqs :
    (IsPost(r) /\ ~BodyParses(r)) =>
      /\ calls[r] = <<>>
      /\ Done(r) => /\ via[r] \notin FallbackSites
                    /\ ~IsPlan(resp[r].body)
                    /\ MetaOf(r, "fallback") # JTrue

\* C12: every POST request whose body parses is answered, when it is answered,
\* with status 200, whatever the credential and whatever the backend does.
C12_ParsedPostIsStatus200 ==
  \A r \in Reqs : (Done(r) /\ IsPost(r) /\ BodyParses(r)) => resp[r].statusCode = 200

\* C12 witness: the backend refused attempt 1 with a non-OK status and the
\* request with a profile body was still answered 200.
C12_Witness ==
  \E r \in Reqs :
    /\ Done(r) /\ IsPost(r) /\ ParsedBody(r).t = "obj"
    /\ Len(calls[r]) = 1 /\ script[r][1].k = "status"
    /\ resp[r].statusCode = 200

\* the meals of the (one-day) fallback plan, their kcal, and the pieces of its note
MealsOf(plan) == plan.f["week"].items[1].f["meals"].items
KcalOf(plan, i) == MealsOf(plan)[i].f["kcal"]
NotePieces(plan) == { plan.f["notes"].s[i] : i \in 1..Len(plan.f["notes"].s) }

\* kcal is an integer within one half of share percent of k
WithinHalfOfShare(kcal, share, k) ==
  /\ kcal.t = "num"
  /\ 100 * kcal.n - share * k <= 50
  /\ share * k - 100 * kcal.n <= 50

\* the plan's three meals are scaled 25/40/35 from calorie target k
ScaledFrom(plan, k) ==
  /\ Len(MealsOf(plan)) = 3
  /\ WithinHalfOfShare(KcalOf(plan, 1), 25, k)
  /\ WithinHalfOfShare(KcalOf(plan, 2), 40, k)
  /\ WithinHalfOfShare(KcalOf(plan, 3), 35, k)

\* C13 (as claimed): whenever a Fallback Plan answers a request whose body
\* parsed to a profile with a calorie_target and a diet_style, on every path
\* into Fallback, its meals are scaled from that target and its note carries
\* that diet_style.
C13_FallbackUsesTheProfile ==
  \A r \in Reqs :
    ( /\ Done(r) /\ IsPost(r) /\ BodyParses(r) /\ via[r] \in FallbackSites
      /\ Get(ParsedBody(r), "calorie_target").t = "num"
      /\ Get(ParsedBody(r), "diet_style").t = "str" )
    => /\ ScaledFrom(resp[r].body, Get(ParsedBody(r), "calorie_target").n)
       /\ Get(ParsedBody(r), "diet_style").s[1] \in NotePieces(resp[r].body)

IsNonNegative(v) == v.t = "num" /\ v.n >= 0

\* {"exercise", "sets": number, "reps", "rest_sec": number, "notes": optional}
IsWorkout(w) ==
  /\ w.t = "obj"
  /\ {"exercise", "sets", "reps", "rest_sec"} \subseteq DOMAIN w.f
  /\ IsNonNegative(w.f["sets"]) /\ IsNonNegative(w.f["rest_sec"])

\* {"name", "kcal", "protein_g", "carbs_g", "fat_g", "ingredients", "instructions"}
IsMeal(m) ==
  /\ m.t = "obj"
  /\ {"name", "kcal", "protein_g", "carbs_g", "fat_g", "ingredients", "instructions"}
       \subseteq DOMAIN m.f
  /\ \A k \in {"kcal", "protein_g", "carbs_g", "fat_g"} : IsNonNegative(m.f[k])

\* schema validation of a plan: the shape, and every item of every day
PassesSchema(plan) ==
  /\ IsPlan(plan)
  /\ \A i \in 1..Len(plan.f["week"].items) :
       LET d == plan.f["week"].items[i]
       IN /\ \A j \in 1..Len(d.f["workouts"].items) : IsWorkout(d.f["workouts"].items[j])
          /\ \A j \in 1..Len(d.f["meals"].items) : IsMeal(d.f["meals"].items[j])

\* planFallback has been called on its own and has returned
FallbackReturned == args.fn = "planFallback" /\ returned # NotReturned

\* C14 (as claimed): for every profile, calorie_target absent, zero, negative or
\* not numeric included, the plan planFallback returns passes schema
\* validation with every numeric field a non-negative number.
C14_FallbackPassesSchema == FallbackReturned => PassesSchema(returned)

\* the calorie target of the call is the integer k
TargetIs(k) == Get(args.profile, "calorie_target") = JNum(k)

\* the sum of the three kcal values differs from k by at most 1
SumNear(plan, k) ==
  LET sum == KcalOf(plan, 1).n + KcalOf(plan, 2).n + KcalOf(plan, 3).n
  IN sum - k <= 1 /\ k - sum <= 1

\* the round of share percent of k, a tie taken upwards
RoundOfShare(share, k) == (share * k + 50) \div 100

\* with target 2400 and the missing-credential meta: fallback true, the reason
\* kept, and kcal summing to 2400
Example2400 ==
  (TargetIs(2400) /\ args.meta = Reason("missing_api_key")) =>
    /\ Get(Get(returned, "_meta"), "fallback") = JTrue
    /\ Get(Get(returned, "_meta"), "reason") = JStr(<<"missing_api_key">>)
    /\ KcalOf(returned, 1).n + KcalOf(returned, 2).n + KcalOf(returned, 3).n = 2400

\* an absent calorie_target gives the plan of target 2200
AbsentTargetIs2200 ==
  Get(args.profile, "calorie_target") = JUndef => ScaledFrom(returned, 2200)

\* C15 (as claimed): for every integer target k of 1..MaxKcal the meals have
\* kcal round(0.25k), round(0.40k) and round(0.35k), summing to k within 1; an
\* absent target counts as 2200; target 2400 with the missing-credential meta
\* gives fallback true, that reason and kcal summing to 2400.
C15_MealsAreExactRounds ==
  FallbackReturned =>
    /\ \A k \in 1..MaxKcal :
         TargetIs(k) => /\ KcalOf(returned, 1) = JNum(RoundOfShare(25, k))
                        /\ KcalOf(returned, 2) = JNum(RoundOfShare(40, k))
                        /\ KcalOf(returned, 3) = JNum(RoundOfShare(35, k))
                        /\ SumNear(returned, k)
    /\ AbsentTargetIs2200
    /\ Example2400

\* C15 (amended): for every integer target k of 1..MaxKcal the meals have
\* integer kcal within one half of 0.25k, 0.40k and 0.35k (the floating-point
\* product may fall just under a tie of 0.35k, which then rounds down), summing
\* to k within 1; an absent target counts as 2200; target 2400 with the
\* missing-credential meta gives fallback true, that reason and kcal summing
\* to 2400.
C15_MealsAreRoundedShares ==
  FallbackReturned =>
    /\ \A k \in 1..MaxKcal :
         TargetIs(k) => ScaledFrom(returned, k) /\ SumNear(returned, k)
    /\ AbsentTargetIs2200
    /\ Example2400

\* C15 witness: target 90, whose 35 percent share is the tie 31.5, returned
\* with kcal 23, 36 and 31.
C15_Witness ==
  /\ FallbackReturned /\ TargetIs(90)
  /\ KcalOf(returned, 1) = JNum(23) /\ KcalOf(returned, 2) = JNum(36)
  /\ KcalOf(returned, 3) = JNum(31)

\* C16 (as claimed): for every profile and every meta object the returned plan
\* has _meta.fallback true and _meta.reason equal to meta.reason, whatever keys
\* meta holds.
C16_FallbackFlagAlwaysTrue ==
  FallbackReturned =>
    /\ Get(Get(returned, "_meta"), "fallback") = JTrue
    /\ Get(Get(returned, "_meta"), "reason") = Get(JObj(args.meta), "reason")

\* tryParseJSON has been called on its own and has returned
ExtractReturned == args.fn = "tryParseJSON" /\ returned # NotReturned

\* C17: for every text that is valid JSON as a whole, tryParseJSON returns ok
\* with exactly the value the direct parse of the whole text yields (not the
\* value of its brace-delimited substring).
C17_ValidJsonRoundTrips ==
  (ExtractReturned /\ JSONparse(args.text).ok) =>
    returned = [ok |-> TRUE, value |-> JSONparse(args.text).value]

\* C17 witness: the text [{}] came back as the array, not as the object
\* between its braces.
C17_Witness ==
  /\ ExtractReturned /\ args.text = <<"[", "{", "}", "]">>
  /\ returned.ok /\ returned.value = JArr(<<EmptyObj>>)

\* no brace among the characters of t
Braceless(t) == \A i \in 1..Len(t) : t[i] \notin {"{", "}"}

\* text is brace-free noise, a valid JSON object from position i to j, noise
NoisyObjectAt(t, i, j) ==
  /\ i < j /\ t[i] = "{" /\ t[j] = "}"
  /\ Braceless(SubSeq(t, 1, i - 1)) /\ Braceless(SubSeq(t, j + 1, Len(t)))
  /\ JSONparse(SubSeq(t, i, j)).ok

IsNoisyObject(t) == \E i, j \in 1..Len(t) : NoisyObjectAt(t, i, j)

\* the object embedded in such a text
Embedded(t) ==
  LET ij == CHOOSE ij \in (1..Len(t)) \X (1..Len(t)) : NoisyObjectAt(t, ij[1], ij[2])
  IN JSONparse(SubSeq(t, ij[1], ij[2])).value

\* C18 (as claimed): for every text of the form noise, valid JSON object,
\* noise, the noise free of braces, tryParseJSON returns ok with the embedded
\* object.
C18_NoisyObjectIsRecovered ==
  (ExtractReturned /\ IsNoisyObject(args.text)) =>
    returned = [ok |-> TRUE, value |-> Embedded(args.text)]

\* C18 (amended): for every text of that form which is not valid JSON as a
\* whole, tryParseJSON returns ok with the embedded object, and
\* parseJsonFromResponse returns that object.
C18_NoisyNonJsonIsRecovered ==
  (returned # NotReturned /\ args.fn \in {"tryParseJSON", "parseJsonFromResponse"}
     /\ IsNoisyObject(args.text) /\ ~JSONparse(args.text).ok) =>
    IF args.fn = "tryParseJSON"
    THEN returned = [ok |-> TRUE, value |-> Embedded(args.text)]
    ELSE returned = [k |-> "value", value |-> Embedded(args.text)]

\* C18 witness: the plan between code-fence markers, recovered.
C18_Witness ==
  /\ ExtractReturned
  /\ args.text = <<"fence", "_">> \o PlanText \o <<"_", "fence">>
  /\ returned.ok /\ returned.value = JSONparse(PlanText).value

\* nothing can be extracted from t: it is not JSON as a whole and it is empty,
\* has no brace pair, has its last "}" before its first "{", or has a
\* brace-delimited substring that is not JSON
Unextractable(t) ==
  /\ ~JSONparse(t).ok
  /\ \A i, j \in 1..Len(t) :
       ( /\ t[i] = "{" /\ t[j] = "}" /\ i < j
         /\ \A h \in 1..(i - 1) : t[h] # "{"
         /\ \A h \in (j + 1)..Len(t) : t[h] # "}" )
       => ~JSONparse(SubSeq(t, i, j)).ok

MethodNotAllowed(r) ==
  /\ via[r] = "method"
  /\ resp[r].statusCode = 405
  /\ resp[r].body = JObj("error" :> JStr(<<"Use POST">>))

\* C20 (as claimed): a request whose method is not POST makes no backend call
\* and receives the fixed method-not-allowed rejection, whatever its body and
\* the credential.
C20_NonPostIsMethodNotAllowed ==
  \A r \in Reqs :
    ~IsPost(r) => /\ calls[r] = <<>>
                  /\ Done(r) => MethodNotAllowed(r)

\* C20 (amended): a request whose method is neither POST nor OPTIONS makes no
\* backend call and receives the fixed method-not-allowed rejection, whatever
\* its body and the credential; an OPTIONS request makes no backend call and
\* receives the empty 204 preflight response.
C20_NonPostIsRejectedOrPreflight ==
  \A r \in Reqs :
    ~IsPost(r) =>
      /\ calls[r] = <<>> /\ pc[r] \in {"idle", "start", "done"}
      /\ Done(r) =>
           IF event[r].httpMethod = "OPTIONS"
           THEN via[r] = "options" /\ resp[r].statusCode = 204 /\ resp[r].body = NoBody
           ELSE MethodNotAllowed(r)

\* C20 witness: a GET with a body that is not JSON and no credential, rejected
\* with 405.
C20_Witness ==
  \E r \in Reqs :
    /\ Done(r) /\ event[r].httpMethod = "GET" /\ event[r].body = <<"x">>
    /\ NoCredential /\ MethodNotAllowed(r)

(* ------------------------------ claims C21 to C28 --------------------- *)

\* the tokens an absent or null value leaves in a template literal
PlaceholderTokens == { "undefined", "null", "NaN" }

\* C21 (as claimed): for every profile with any subset of the optional fields
\* absent, and with a list field present but null, the prompt is built and
\* the text rendered for each field, scalar or list, holds no undefined or
\* placeholder token.
C21_PromptHasNoPlaceholder ==
  (args.fn = "prompt" /\ returned # NotReturned /\ args.profile.t = "obj") =>
    /\ returned.k = "value"
    /\ \A f \in DOMAIN returned.value :
         \A i \in 1..Len(returned.value[f]) : returned.value[f][i] \notin PlaceholderTokens

\* C22 (as claimed): the text the completion client returns for a success
\* response is the first non-empty string among output_text,
\* choices[0].message.content and choices[0].text, in that order; with no
\* non-empty string at any of them the attempt counts as failed.
C22_FirstNonEmptyPositionWins ==
  \A r \in Reqs : \A n \in 1..2 :
    (Settled(r, n) /\ script[r][n].k = "ok") =>
      IF probeText(script[r][n].data) # <<>>
      THEN Len(out[r]) >= n /\ out[r][n] = probeText(script[r][n].data)
      ELSE AttemptFailed(r, n)

\* C23: within a request at most one backend call is outstanding at any
\* moment (one exactly while the handler is suspended, none otherwise), and
\* attempt 2 is outstanding only after attempt 1 has completed with a text
\* that failed extraction.
C23_AttemptsAreSequential ==
  \A r \in Reqs :
    /\ inflight[r] = (IF pc[r] \in {"await1", "await2"} THEN 1 ELSE 0)
    /\ pc[r] = "await2" =>
         /\ Len(calls[r]) = 2 /\ Len(out[r]) = 1
         /\ script[r][1].k = "ok" /\ ~tryParseJSON(out[r][1]).ok

\* C23 witness: the retry is outstanding, alone, after prose from attempt 1.
C23_Witness ==
  \E r \in Reqs :
    /\ pc[r] = "await2" /\ inflight[r] = 1 /\ Len(calls[r]) = 2
    /\ out[r] = << <<"x">> >>

\* C24: with two requests served at once and interleaved at their awaits in
\* any order, no invocation is rejected and each request's response equals the
\* response the handler gives that request when it runs alone with the same
\* event, configuration and backend replies.
C24_RequestsAreIndependent ==
  \A r \in Reqs :
    /\ pc[r] # "rejected"
    /\ Done(r) => /\ RunAlone(event[r], script[r]).k = "return"
                  /\ resp[r] = RunAlone(event[r], script[r]).resp

\* C24 witness: request 1, with a profile, was answered from its own profile
\* while request 2, with no body, is suspended at its retry.
C24_Witness ==
  /\ Done(1) /\ via[1] = "bad_json" /\ event[1].body # <<>>
  /\ pc[2] = "await2" /\ event[2].body = <<>>
  /\ KcalOf(resp[1].body, 1) = JNum(600)

\* the text the backend sent for call n of request r
SentText(r, n) == chatJSONResult(script[r][n]).text

\* C27: after two parse failures the raw diagnostic is the text the backend
\* sent this request for attempt 2 when that text is not empty and the text it
\* sent this request for attempt 1 otherwise, also while another request is
\* being served.
C27_RawIsThisRequestsText ==
  \A r \in Reqs :
    BothTextsFail(r) =>
      MetaOf(r, "raw") = JStr(IF SentText(r, 2) # <<>> THEN SentText(r, 2) ELSE SentText(r, 1))

\* C27 witness: two requests failed twice with different texts; request 1,
\* whose second text was empty, reports its own first text.
C27_Witness ==
  /\ BothTextsFail(1) /\ BothTextsFail(2)
  /\ out[1] = << <<"x">>, <<>> >> /\ out[2] = << <<"x", "x">>, <<>> >>
  /\ MetaOf(1, "raw") = JStr(<<"x">>)

\* C26 (as claimed): a response built from attempt 1's text has _meta.retry
\* false after exactly one backend call, a response built from attempt 2's
\* text has _meta.retry true after exactly two, and both carry the configured
\* model in _meta.model.
C26_RetryFlagRecordsTheAttempt ==
  \A r \in Reqs :
    (Done(r) /\ via[r] \in ModelSites) =>
      /\ MetaOf(r, "model") = JStr(<<MODEL>>)
      /\ via[r] = "first" => MetaOf(r, "retry") = JFalse /\ Len(calls[r]) = 1
      /\ via[r] = "retry" => MetaOf(r, "retry") = JTrue /\ Len(calls[r]) = 2

\* the request URL carries the query parameter test=1
HasTestSwitch(r) == \E i \in 1..Len(event[r].rawUrl) : event[r].rawUrl[i] = "?test=1"

\* the request ended in Fallback at the given return with the given reason
FallbackWith(r, site, why) ==
  /\ via[r] = site
  /\ IsPlan(resp[r].body)
  /\ MetaOf(r, "fallback") = JTrue
  /\ MetaOf(r, "reason") = JStr(<<why>>)

\* C28 (as claimed): a POST request with test=1 issues no backend call and
\* returns the Fallback Plan with reason test_mode when a credential is
\* configured, with reason missing_api_key when none is.
C28_TestSwitchAnyBody ==
  \A r \in Reqs :
    (IsPost(r) /\ HasTestSwitch(r)) =>
      /\ calls[r] = <<>>
      /\ Done(r) => IF NoCredential THEN FallbackWith(r, "nokey", "missing_api_key")
                    ELSE FallbackWith(r, "test", "test_mode")

\* C28 (amended): a POST request with test=1 issues no backend call, and when
\* its body is absent, empty or valid JSON it returns the Fallback Plan with
\* reason test_mode when a credential is configured, with reason
\* missing_api_key when none is.
C28_TestSwitchParsedBody ==
  \A r \in Reqs :
    (IsPost(r) /\ HasTestSwitch(r)) =>
      /\ calls[r] = <<>> /\ inflight[r] = 0
      /\ (Done(r) /\ BodyParses(r)) =>
           IF NoCredential THEN FallbackWith(r, "nokey", "missing_api_key")
           ELSE FallbackWith(r, "test", "test_mode")

\* C28 witness: with a credential, a POST with test=1 and a profile body was
\* answered with the test_mode Fallback Plan built from the profile.
C28_Witness ==
  \E r \in Reqs :
    /\ Done(r) /\ IsPost(r) /\ HasTestSwitch(r) /\ ~NoCredential
    /\ FallbackWith(r, "test", "test_mode")
    /\ KcalOf(resp[r].body, 1) = JNum(600)
====
